---- MODULE Spec2Model ----
(***************************************************************************)
(* HistoryManager (src/history_manager.py): the undo/redo store of the     *)
(* image editor.  Two bounded deques of image snapshots (_history_stack,   *)
(* _redo_stack) and the current snapshot (_current_state).                 *)
(*                                                                         *)
(* A snapshot is modelled by its pixel content, an element of Images;      *)
(* ndarray.copy() yields an array of equal content, so it is the value     *)
(* itself.  Python's None is the value None.                               *)
(*                                                                         *)
(* Spec            the store driven with arguments within its contract     *)
(* SpecAnyDepth    the store built with any integer max_history            *)
(* SpecAbsentImage the store given None where an image is expected         *)
(* SpecBuffers     the store with every array an object of its own, to     *)
(*                 settle what is shared between the store and its caller  *)
(* SpecMemory      the store with get_memory_usage() among the calls       *)
(* SpecApp         ImageEditorApp (src/src/gui/main_window.py): the event  *)
(*                 handlers driving the store and the ImageProcessor       *)
(* SpecBlur        the blur kernel arithmetic of ControlPanel and          *)
(*                 ImageProcessor.apply_blur                               *)
(* SpecProcessor   ImageProcessor (src/src/core/image_processor.py) with   *)
(*                 an image as its width and height, to settle the sizes   *)
(*                 it computes and records                                 *)
(***************************************************************************)
EXTENDS Integers, Sequences, FiniteSets, TLC

\* ---------------------------------------------------------------- bounds
\* Number of distinct pixel contents the callers pass in.
NumImages == 4
\* Largest max_history a store is constructed with (the code's default is 20).
MaxHistoryBound == 2
\* Number of distinct pixel contents of the arrays in the buffer view.
NumPixels == 2
\* Largest number of arrays the caller holds at a time in the buffer view.
MaxHeld == 1
\* Number of distinct images the application loads or its filters produce.
NumAppImages == 2
\* Positions of the blur slider per unit of its value.
SliderSteps == 2
\* Largest magnitude of an intensity given to apply_blur directly.
IntensityBound == 4
\* Smallest max_history tried is -NegHistoryBound.
NegHistoryBound == 1
\* Largest width and height, in pixels, of an image or of a requested size.
MaxSide == 2

None == 0
Images == 1..NumImages

VARIABLES
    history_stack,   \* self._history_stack : deque, oldest first
    redo_stack,      \* self._redo_stack    : deque, oldest first
    max_history,     \* self._max_history
    current_state,   \* self._current_state : image or None
    ret,             \* value returned by the last call (None for a procedure)
    last,            \* the last call: its name, its argument, the store before it
    prev,            \* the call before the last one: its name, the store before it
    run,             \* the run of calls since the last initialize_state
    scen,            \* how far the calls since construction follow ScenarioOps
    exc,             \* the exception the last call raised, or "none"
    streak,          \* successful calls in the present run of undo()s or of redo()s
    \* The same store with its arrays as objects (see "buffers" below):
    heap,            \* the live ndarray objects: heap[identity] = pixel content
    current_ref,     \* self._current_state : an array identity or None
    history_refs,    \* self._history_stack : array identities, oldest first
    redo_refs,       \* self._redo_stack    : array identities, oldest first
    caller_refs,     \* the arrays the caller holds: identity, and where it got it
    ref_ret,         \* the array the last call returned, or None
    ref_last,        \* the last step: its name, the origin of the array it wrote or dropped
    \* The application around the store (see "application" below):
    current_image,   \* image_processor._current_image : image or None
    original_image,  \* image_processor._original_image : image or None
    is_modified,     \* app.is_modified
    current_file_path, \* app.current_file_path : a path, "" for None
    controls_enabled,  \* control_panel.controls_enabled
    app_last,        \* the last event handler: name, outcome, store calls, image before it
    filters_since_load, \* successful filters since the image was loaded, -1 if other events came
    file_image,      \* the image last read from or written to a file, or None
    \* The blur controls (see "blur" below):
    blur_slider,     \* control_panel.sliders['blur'] : its value, in 1/SliderSteps units
    blur_label,      \* control_panel.blur_value_label : the number it shows
    blur_intensity,  \* image_processor._blur_intensity
    blur_kernel,     \* the kernel size last handed to cv2.GaussianBlur, or None
    blur_last,       \* the last blur step: its name and its argument
    \* The image sizes of the processor (see "processor" below):
    current_shape,    \* image_processor._current_image.shape : width and height, or NoShape
    original_shape,   \* image_processor._original_image.shape : width and height, or NoShape
    metadata,        \* image_processor._metadata : its width and height, or NoShape
    proc_last        \* the last processor call: name, arguments, size before, result

valvars == <<history_stack, redo_stack, current_state, ret, last, prev, run, scen, exc, streak>>
bufvars == <<heap, current_ref, history_refs, redo_refs, caller_refs, ref_ret, ref_last>>
appvars == <<current_image, original_image, is_modified, current_file_path,
             controls_enabled, app_last, filters_since_load, file_image>>
blurvars == <<blur_slider, blur_label, blur_intensity, blur_kernel, blur_last>>
procvars == <<current_shape, original_shape, metadata, proc_last>>
vars == <<max_history, valvars, bufvars, appvars, blurvars, procvars>>

\* ------------------------------------------------------------ collections
\* Faulty variant: a plain list, the maxlen bound forgotten.
DequeAppendUnbounded(d, x, maxlen) == Append(d, x)

\* Faulty variant: a full deque refuses the new item instead of dropping the oldest.
DequeAppendRejectNew(d, x, maxlen) ==
    IF Len(d) >= maxlen THEN d ELSE Append(d, x)

\* deque.append on a deque(maxlen=maxlen): when the deque is full the item at
\* the opposite (left, oldest) end is discarded; with maxlen = 0 nothing is kept.
DequeAppend(d, x, maxlen) ==
    IF maxlen = 0 THEN <<>>
    ELSE IF Len(d) = maxlen THEN Append(Tail(d), x)
    ELSE Append(d, x)

\* deque.pop(): removes and returns the rightmost (newest) item.
DequePopItem(d) == d[Len(d)]
DequePopRest(d) == SubSeq(d, 1, Len(d) - 1)

\* ------------------------------------------------------------- properties
\* Faulty variant: undo is offered whenever either stack holds an entry.
can_undo_any_entry == Len(history_stack) + Len(redo_stack) > 0

can_undo == Len(history_stack) > 0
can_redo == Len(redo_stack) > 0
history_count == Len(history_stack)

\* The fields of a HistoryManager: two deques of images, the bound they were
\* built with, and the current image or None.
TypeOK ==
    /\ max_history \in 1..MaxHistoryBound
    /\ history_stack \in Seq(Images)
    /\ redo_stack \in Seq(Images)
    /\ current_state \in Images \cup {None}
    /\ ret \in Images \cup {None}

\* The store as a value, for the observations below.
Store == [current |-> current_state, undo |-> history_stack, redo |-> redo_stack]

\* ------------------------------------------------------------- operations
\* Faulty variant: the redo stack is not cleared (line 74 missing).
add_state_keep_redo(image) ==
    /\ history_stack' = IF current_state # None
                        THEN DequeAppend(history_stack, current_state, max_history)
                        ELSE history_stack
    /\ current_state' = image
    /\ redo_stack' = redo_stack
    /\ ret' = None
    /\ UNCHANGED max_history

\* Faulty variant: the new image, not the old current state, is pushed, and
\* without the None check of line 66.
add_state_push_new(image) ==
    /\ history_stack' = DequeAppend(history_stack, image, max_history)
    /\ current_state' = image
    /\ redo_stack' = <<>>
    /\ ret' = None
    /\ UNCHANGED max_history

\* add_state (lines 56-74).
add_state(image) ==
    /\ history_stack' = IF current_state # None
                        THEN DequeAppend(history_stack, current_state, max_history)
                        ELSE history_stack
    /\ current_state' = image
    /\ redo_stack' = <<>>
    /\ ret' = None
    /\ UNCHANGED max_history

\* Faulty variant: the current state is not saved to the redo stack (lines 87-88 missing).
undo_drop_current ==
    IF ~can_undo
    THEN /\ ret' = None
         /\ UNCHANGED <<history_stack, redo_stack, current_state, max_history>>
    ELSE /\ redo_stack' = redo_stack
         /\ current_state' = DequePopItem(history_stack)
         /\ history_stack' = DequePopRest(history_stack)
         /\ ret' = current_state'
         /\ UNCHANGED max_history

\* Faulty variant: the can_undo guard of lines 83-84 is missing; on an empty
\* history stack the push of line 88 happens before pop() fails.
undo_unguarded ==
    /\ redo_stack' = IF current_state # None
                     THEN DequeAppend(redo_stack, current_state, max_history)
                     ELSE redo_stack
    /\ current_state' = IF can_undo THEN DequePopItem(history_stack) ELSE current_state
    /\ history_stack' = IF can_undo THEN DequePopRest(history_stack) ELSE history_stack
    /\ ret' = IF can_undo THEN current_state' ELSE None
    /\ UNCHANGED max_history

\* Faulty variant: popleft() instead of pop(), restoring the oldest entry.
undo_oldest ==
    IF ~can_undo
    THEN /\ ret' = None
         /\ UNCHANGED <<history_stack, redo_stack, current_state, max_history>>
    ELSE /\ redo_stack' = IF current_state # None
                          THEN DequeAppend(redo_stack, current_state, max_history)
                          ELSE redo_stack
         /\ current_state' = Head(history_stack)
         /\ history_stack' = Tail(history_stack)
         /\ ret' = current_state'
         /\ UNCHANGED max_history

\* Faulty variant: the restored entry is read but not removed (pop() replaced
\* by indexing the last entry).
undo_keep_entry ==
    IF ~can_undo
    THEN /\ ret' = None
         /\ UNCHANGED <<history_stack, redo_stack, current_state, max_history>>
    ELSE /\ redo_stack' = IF current_state # None
                          THEN DequeAppend(redo_stack, current_state, max_history)
                          ELSE redo_stack
         /\ current_state' = DequePopItem(history_stack)
         /\ history_stack' = history_stack
         /\ ret' = current_state'
         /\ UNCHANGED max_history

\* undo (lines 76-92).
undo ==
    IF ~can_undo
    THEN /\ ret' = None
         /\ UNCHANGED <<history_stack, redo_stack, current_state, max_history>>
    ELSE /\ redo_stack' = IF current_state # None
                          THEN DequeAppend(redo_stack, current_state, max_history)
                          ELSE redo_stack
         /\ current_state' = DequePopItem(history_stack)
         /\ history_stack' = DequePopRest(history_stack)
         /\ ret' = current_state'
         /\ UNCHANGED max_history

\* Faulty variant: the current state is not saved to the history stack (lines 105-106 missing).
redo_drop_current ==
    IF ~can_redo
    THEN /\ ret' = None
         /\ UNCHANGED <<history_stack, redo_stack, current_state, max_history>>
    ELSE /\ history_stack' = history_stack
         /\ current_state' = DequePopItem(redo_stack)
         /\ redo_stack' = DequePopRest(redo_stack)
         /\ ret' = current_state'
         /\ UNCHANGED max_history

\* Faulty variant: the can_redo guard of lines 101-102 is missing; on an empty
\* redo stack the push of line 106 happens before pop() fails.
redo_unguarded ==
    /\ history_stack' = IF current_state # None
                        THEN DequeAppend(history_stack, current_state, max_history)
                        ELSE history_stack
    /\ current_state' = IF can_redo THEN DequePopItem(redo_stack) ELSE current_state
    /\ redo_stack' = IF can_redo THEN DequePopRest(redo_stack) ELSE redo_stack
    /\ ret' = IF can_redo THEN current_state' ELSE None
    /\ UNCHANGED max_history

\* Faulty variant: popleft() instead of pop(), restoring the oldest redo entry.
redo_oldest ==
    IF ~can_redo
    THEN /\ ret' = None
         /\ UNCHANGED <<history_stack, redo_stack, current_state, max_history>>
    ELSE /\ history_stack' = IF current_state # None
                             THEN DequeAppend(history_stack, current_state, max_history)
                             ELSE history_stack
         /\ current_state' = Head(redo_stack)
         /\ redo_stack' = Tail(redo_stack)
         /\ ret' = current_state'
         /\ UNCHANGED max_history

\* Faulty variant: with nothing to redo the current state is reset to None.
redo_none_on_empty ==
    IF ~can_redo
    THEN /\ ret' = None
         /\ current_state' = None
         /\ UNCHANGED <<history_stack, redo_stack, max_history>>
    ELSE /\ history_stack' = IF current_state # None
                             THEN DequeAppend(history_stack, current_state, max_history)
                             ELSE history_stack
         /\ current_state' = DequePopItem(redo_stack)
         /\ redo_stack' = DequePopRest(redo_stack)
         /\ ret' = current_state'
         /\ UNCHANGED max_history

\* redo (lines 94-110).
redo ==
    IF ~can_redo
    THEN /\ ret' = None
         /\ UNCHANGED <<history_stack, redo_stack, current_state, max_history>>
    ELSE /\ history_stack' = IF current_state # None
                             THEN DequeAppend(history_stack, current_state, max_history)
                             ELSE history_stack
         /\ current_state' = DequePopItem(redo_stack)
         /\ redo_stack' = DequePopRest(redo_stack)
         /\ ret' = current_state'
         /\ UNCHANGED max_history

\* Faulty variant: the history stack is not cleared (line 114 missing).
clear_history_keep_history ==
    /\ history_stack' = history_stack
    /\ redo_stack' = <<>>
    /\ current_state' = None
    /\ ret' = None
    /\ UNCHANGED max_history

\* Faulty variant: the current state is not dropped (line 116 missing).
clear_history_keep_current ==
    /\ history_stack' = <<>>
    /\ redo_stack' = <<>>
    /\ current_state' = current_state
    /\ ret' = None
    /\ UNCHANGED max_history

\* clear_history (lines 112-116).
clear_history ==
    /\ history_stack' = <<>>
    /\ redo_stack' = <<>>
    /\ current_state' = None
    /\ ret' = None
    /\ UNCHANGED max_history

\* Faulty variant: clear_history() is not called (line 138 missing).
initialize_state_no_clear(image) ==
    /\ history_stack' = history_stack
    /\ redo_stack' = redo_stack
    /\ current_state' = image
    /\ ret' = None
    /\ UNCHANGED max_history

\* initialize_state (lines 129-139): clear_history(), then the current state is set.
initialize_state(image) ==
    /\ history_stack' = <<>>
    /\ redo_stack' = <<>>
    /\ current_state' = image
    /\ ret' = None
    /\ UNCHANGED max_history

\* add_state(None): lines 66-68 push the current state, then image.copy() at
\* line 71 raises AttributeError; lines 71 and 74 have no effect.
add_state_absent ==
    /\ history_stack' = IF current_state # None
                        THEN DequeAppend(history_stack, current_state, max_history)
                        ELSE history_stack
    /\ ret' = None
    /\ UNCHANGED <<current_state, redo_stack, max_history>>

\* initialize_state(None): clear_history() at line 138 has run when
\* image.copy() at line 139 raises AttributeError.
initialize_state_absent == clear_history

\* ----------------------------------------------------------- observations
\* What a test harness driving the store records: the last two calls, and the
\* run  initialize_state(S0), add_state(S1), ..., add_state(Sn), undo() x n,
\* redo() x n  while the calls made follow that pattern.
EmptyStore == [current |-> None, undo |-> <<>>, redo |-> <<>>]
NoRun == [phase |-> "none", chain |-> <<>>, n |-> 0, rets |-> <<>>]

\* The last k items of s (all of s when it is shorter).
LastItems(s, k) == IF Len(s) <= k THEN s ELSE SubSeq(s, Len(s) - k + 1, Len(s))
Min(a, b) == IF a <= b THEN a ELSE b

\* run.chain holds S0..Sn, cut to its last max_history + 1 items; run.n is n,
\* saturating at max_history + 1; run.rets the values the undo()s (phase
\* "undos") or the redo()s (phase "redos") of the run have returned so far.
RunStep(op, arg, r) ==
    CASE op = "initialize_state" ->
            [phase |-> "adds", chain |-> <<arg>>, n |-> 0, rets |-> <<>>]
      [] op = "add_state" /\ run.phase = "adds" ->
            [run EXCEPT !.chain = LastItems(Append(run.chain, arg), max_history + 1),
                        !.n = Min(run.n + 1, max_history + 1)]
      [] op = "undo" /\ run.phase = "adds" /\ run.n >= 1 /\ run.n <= max_history ->
            [run EXCEPT !.phase = "undos", !.rets = <<r>>]
      [] op = "undo" /\ run.phase = "undos" /\ Len(run.rets) < run.n ->
            [run EXCEPT !.rets = Append(run.rets, r)]
      [] op = "redo" /\ run.phase = "undos" /\ Len(run.rets) = run.n ->
            [run EXCEPT !.phase = "redos", !.rets = <<r>>]
      [] op = "redo" /\ run.phase = "redos" /\ Len(run.rets) < run.n ->
            [run EXCEPT !.rets = Append(run.rets, r)]
      [] OTHER -> NoRun

\* The call sequence add_state x 4, undo x 3, redo made on a new store:
\* scen.k is the number of calls made while every call since construction
\* followed it (-1 once one did not), scen.args the images given so far.
ScenarioOps == <<"add_state", "add_state", "add_state", "add_state",
                 "undo", "undo", "undo", "redo">>
NoScenario == [k |-> -1, args |-> <<>>]

ScenStep(op, arg) ==
    IF scen.k >= 0 /\ scen.k < Len(ScenarioOps) /\ op = ScenarioOps[scen.k + 1]
    THEN [k |-> scen.k + 1,
          args |-> IF op = "add_state" THEN Append(scen.args, arg) ELSE scen.args]
    ELSE NoScenario

\* The number of calls that returned an image in the run of consecutive
\* undo() calls, or of consecutive redo() calls, that the call op returning r
\* belongs to; 0 for any other call.  It is counted up to max_history + 1.
StreakStep(op, r) ==
    IF op \notin {"undo", "redo"} THEN 0
    ELSE Min((IF last.op = op THEN streak ELSE 0) + (IF r # None THEN 1 ELSE 0),
             max_history + 1)

\* A call that returned.
Observe(op, arg) ==
    /\ UNCHANGED <<bufvars, appvars, blurvars, procvars>>
    /\ last' = [op |-> op, arg |-> arg, pre |-> Store]
    /\ prev' = [op |-> last.op, pre |-> last.pre]
    /\ run' = RunStep(op, arg, ret')
    /\ scen' = ScenStep(op, arg)
    /\ exc' = "none"
    /\ streak' = StreakStep(op, ret')

\* A call that raised e: it is part of no recorded run.
ObserveRaise(op, arg, e) ==
    /\ UNCHANGED <<bufvars, appvars, blurvars, procvars>>
    /\ last' = [op |-> op, arg |-> arg, pre |-> Store]
    /\ prev' = [op |-> last.op, pre |-> last.pre]
    /\ run' = NoRun
    /\ scen' = NoScenario
    /\ exc' = e
    /\ streak' = 0

\* ---------------------------------------------------------------- buffers
\* The same methods with every ndarray as an object of its own: an identity
\* (a positive integer) and, in heap, its pixel content.  ndarray.copy()
\* allocates a new array of equal content; an array no longer referenced by
\* the store or by the caller is reclaimed.  An identity carries no meaning
\* beyond equality, so after every step the live arrays are renamed 1, 2, ...
\* in the order current state, history stack, redo stack, caller.
Pixels == 1..NumPixels
Range(f) == {f[i] : i \in DOMAIN f}

\* An identity not in use.
Fresh(used) == CHOOSE n \in 1..(Cardinality(used) + 1) : n \notin used

\* hp with a new array n holding a copy of array b: ndarray.copy().
CopyInto(hp, n, b) == [i \in DOMAIN hp \cup {n} |-> IF i = n THEN hp[b] ELSE hp[i]]

\* The store as the caller can read it: the contents of its arrays.
ViewOf(hp, c, h, r) ==
    [current |-> IF c = None THEN None ELSE hp[c],
     undo |-> [i \in 1..Len(h) |-> hp[h[i]]],
     redo |-> [i \in 1..Len(r) |-> hp[r[i]]]]
View == ViewOf(heap, current_ref, history_refs, redo_refs)

\* The new name of every identity in order: 1 for the first one met, 2 for
\* the next different one, and so on.
NameInOrder(order) ==
    [x \in Range(order) |->
        Cardinality({order[j] : j \in 1..(CHOOSE k \in 1..Len(order) : order[k] = x)})]

\* A step of the buffer view ends with the fields c, h, r, the caller holding
\* held, and the heap hp: unreferenced arrays are reclaimed, the rest renamed.
Commit(op, origin, hp, c, h, r, held, returned) ==
    \E s \in {[hp |-> hp, c |-> c, h |-> h, r |-> r, held |-> held, ret |-> returned]} :
    \E order \in {(IF s.c = None THEN <<>> ELSE <<s.c>>) \o s.h \o s.r
                     \o [i \in 1..Len(s.held) |-> s.held[i].ref]} :
    \E name \in {NameInOrder(order)} :
        /\ current_ref' = IF s.c = None THEN None ELSE name[s.c]
        /\ history_refs' = [i \in 1..Len(s.h) |-> name[s.h[i]]]
        /\ redo_refs' = [i \in 1..Len(s.r) |-> name[s.r[i]]]
        /\ caller_refs' = [i \in 1..Len(s.held) |->
                              [s.held[i] EXCEPT !.ref = name[s.held[i].ref]]]
        /\ ref_ret' = IF s.ret = None THEN None ELSE name[s.ret]
        /\ heap' = [n \in 1..Cardinality(DOMAIN name) |->
                       s.hp[CHOOSE x \in DOMAIN name : name[x] = n]]
        /\ ref_last' = [op |-> op, origin |-> origin]
        /\ UNCHANGED <<max_history, valvars, appvars, blurvars, procvars>>

\* The caller keeps the array a method returned.
Keep(op, returned) == Append(caller_refs, [ref |-> returned, from |-> op])

\* Faulty variant: the image is stored without .copy() (line 71).
add_state_ref_no_copy(image) ==
    LET pushed == current_ref # None
        n1 == Fresh(DOMAIN heap)
        hp1 == IF pushed THEN CopyInto(heap, n1, current_ref) ELSE heap
    IN  Commit("add_state", "none", hp1, image,
               IF pushed THEN DequeAppend(history_refs, n1, max_history) ELSE history_refs,
               <<>>, caller_refs, None)

\* add_state(image), image an array the caller holds (lines 66-74).
add_state_ref(image) ==
    LET pushed == current_ref # None
        n1 == Fresh(DOMAIN heap)
        hp1 == IF pushed THEN CopyInto(heap, n1, current_ref) ELSE heap
        n2 == Fresh(DOMAIN hp1)
    IN  Commit("add_state", "none", CopyInto(hp1, n2, image), n2,
               IF pushed THEN DequeAppend(history_refs, n1, max_history) ELSE history_refs,
               <<>>, caller_refs, None)

\* undo() (lines 83-92): the popped array itself becomes the current state,
\* a copy of it is returned.
undo_ref ==
    IF Len(history_refs) = 0
    THEN Commit("undo", "none", heap, current_ref, history_refs, redo_refs, caller_refs, None)
    ELSE LET saved == current_ref # None
             n1 == Fresh(DOMAIN heap)
             hp1 == IF saved THEN CopyInto(heap, n1, current_ref) ELSE heap
             c == DequePopItem(history_refs)
             n2 == Fresh(DOMAIN hp1)
         IN  Commit("undo", "none", CopyInto(hp1, n2, c), c, DequePopRest(history_refs),
                    IF saved THEN DequeAppend(redo_refs, n1, max_history) ELSE redo_refs,
                    Keep("undo", n2), n2)

\* redo() (lines 101-110).
redo_ref ==
    IF Len(redo_refs) = 0
    THEN Commit("redo", "none", heap, current_ref, history_refs, redo_refs, caller_refs, None)
    ELSE LET saved == current_ref # None
             n1 == Fresh(DOMAIN heap)
             hp1 == IF saved THEN CopyInto(heap, n1, current_ref) ELSE heap
             c == DequePopItem(redo_refs)
             n2 == Fresh(DOMAIN hp1)
         IN  Commit("redo", "none", CopyInto(hp1, n2, c), c,
                    IF saved THEN DequeAppend(history_refs, n1, max_history) ELSE history_refs,
                    DequePopRest(redo_refs), Keep("redo", n2), n2)

\* clear_history() (lines 114-116).
clear_history_ref == Commit("clear_history", "none", heap, None, <<>>, <<>>, caller_refs, None)

\* initialize_state(image) (lines 138-139).
initialize_state_ref(image) ==
    LET n == Fresh(DOMAIN heap)
    IN  Commit("initialize_state", "none", CopyInto(heap, n, image), n, <<>>, <<>>,
               caller_refs, None)

\* Faulty variant: the current state itself is returned, without .copy() (line 126).
get_current_state_ref_no_copy ==
    IF current_ref # None
    THEN Commit("get_current_state", "none", heap, current_ref, history_refs, redo_refs,
                Keep("get_current_state", current_ref), current_ref)
    ELSE Commit("get_current_state", "none", heap,
                current_ref, history_refs, redo_refs, caller_refs, None)

\* get_current_state() (lines 125-127): a copy of the current state, or None.
get_current_state_ref ==
    IF current_ref # None
    THEN LET n == Fresh(DOMAIN heap)
         IN  Commit("get_current_state", "none", CopyInto(heap, n, current_ref),
                    current_ref, history_refs, redo_refs, Keep("get_current_state", n), n)
    ELSE Commit("get_current_state", "none", heap,
                current_ref, history_refs, redo_refs, caller_refs, None)

\* The caller: it makes an array of its own, lets go of one it holds, or
\* writes new pixels into one it holds.
HasRoom == Len(caller_refs) < MaxHeld

CallerNew(v) ==
    LET n == Fresh(DOMAIN heap)
    IN  /\ HasRoom
        /\ Commit("new", "caller",
                  [i \in DOMAIN heap \cup {n} |-> IF i = n THEN v ELSE heap[i]],
                  current_ref, history_refs, redo_refs, Keep("caller", n), None)

CallerDrop(k) ==
    Commit("drop", caller_refs[k].from, heap, current_ref, history_refs, redo_refs,
           [i \in 1..(Len(caller_refs) - 1) |->
               IF i < k THEN caller_refs[i] ELSE caller_refs[i + 1]],
           None)

CallerMutate(k, v) ==
    /\ v # heap[caller_refs[k].ref]
    /\ Commit("mutate", caller_refs[k].from, [heap EXCEPT ![caller_refs[k].ref] = v],
              current_ref, history_refs, redo_refs, caller_refs, None)

AddStateRef == \E k \in DOMAIN caller_refs : add_state_ref(caller_refs[k].ref)
UndoRef == HasRoom /\ undo_ref
RedoRef == HasRoom /\ redo_ref
ClearHistoryRef == clear_history_ref
InitializeStateRef == \E k \in DOMAIN caller_refs : initialize_state_ref(caller_refs[k].ref)
GetCurrentStateRef == HasRoom /\ get_current_state_ref
New == \E v \in Pixels : CallerNew(v)
Drop == \E k \in DOMAIN caller_refs : CallerDrop(k)
Mutate == \E k \in DOMAIN caller_refs : \E v \in Pixels : CallerMutate(k, v)

NextBuffers ==
    \/ AddStateRef \/ UndoRef \/ RedoRef \/ ClearHistoryRef \/ InitializeStateRef
    \/ GetCurrentStateRef \/ New \/ Drop \/ Mutate

\* The buffer view right after __init__: no array exists.
InitBuffers ==
    /\ heap = <<>>
    /\ current_ref = None
    /\ history_refs = <<>>
    /\ redo_refs = <<>>
    /\ caller_refs = <<>>
    /\ ref_ret = None
    /\ ref_last = [op |-> "construct", origin |-> "none"]

\* ----------------------------------------------------------- memory usage
\* ndarray.nbytes: the size of an array follows from its shape, not from its
\* content; images 2k-1 and 2k stand for two arrays of k bytes.
nbytes(image) == (image + 1) \div 2

\* sum(img.nbytes for img in d if img is not None) (lines 149-150).
RECURSIVE SumBytes(_)
SumBytes(d) ==
    IF d = <<>> THEN 0
    ELSE (IF Head(d) # None THEN nbytes(Head(d)) ELSE 0) + SumBytes(Tail(d))

\* size / (1024 * 1024) (lines 158-161): a byte count below 2^53 divided by
\* a power of two is exact in binary floating point, so the quotient is the
\* rational number bytes / MiB, kept as numerator and denominator.
MiB == 1024 * 1024
SizeMb(bytes) == [num |-> bytes, den |-> MiB]

\* Faulty variant: the current state is left out of the total (line 153).
get_memory_usage_no_current ==
    /\ ret' = [history_count |-> Len(history_stack),
               redo_count |-> Len(redo_stack),
               history_size_mb |-> SizeMb(SumBytes(history_stack)),
               redo_size_mb |-> SizeMb(SumBytes(redo_stack)),
               current_size_mb |->
                   SizeMb(IF current_state # None THEN nbytes(current_state) ELSE 0),
               total_size_mb |-> SizeMb(SumBytes(history_stack) + SumBytes(redo_stack))]
    /\ UNCHANGED <<history_stack, redo_stack, current_state, max_history>>

\* get_memory_usage (lines 141-162): the dictionary it returns.
get_memory_usage ==
    LET history_size == SumBytes(history_stack)
        redo_size == SumBytes(redo_stack)
        current_size == IF current_state # None THEN nbytes(current_state) ELSE 0
        total_size == history_size + redo_size + current_size
    IN  /\ ret' = [history_count |-> Len(history_stack),
                   redo_count |-> Len(redo_stack),
                   history_size_mb |-> SizeMb(history_size),
                   redo_size_mb |-> SizeMb(redo_size),
                   current_size_mb |-> SizeMb(current_size),
                   total_size_mb |-> SizeMb(total_size)]
        /\ UNCHANGED <<history_stack, redo_stack, current_state, max_history>>

\* ------------------------------------------------------------ application
\* ImageEditorApp: its event handlers run one at a time (Tk's event loop),
\* each to completion.  The ImageProcessor holds the displayed image; the
\* HistoryManager is the store above.  The application builds its store with
\* the default max_history (20); here its depth is within MaxHistoryBound.
\* The handlers call the store's methods one after another, so the calls are
\* given as functions from the store before to the store after.

\* The paths a file dialog returns; "" when it is cancelled.  "" also stands
\* for the None that current_file_path holds before the first load.
Paths == {"a.png"}

\* The images a file holds or a filter produces.
AppImages == 1..NumAppImages

\* The store s after add_state(image) (history_manager.py lines 66-74).
after_add_state(s, image) ==
    [current |-> image,
     undo |-> IF s.current # None
              THEN DequeAppend(s.undo, s.current, max_history)
              ELSE s.undo,
     redo |-> <<>>]

\* The store s after undo() (lines 83-91), and what undo() returns (lines 84, 92).
after_undo(s) ==
    IF s.undo = <<>> THEN s
    ELSE [current |-> DequePopItem(s.undo),
          undo |-> DequePopRest(s.undo),
          redo |-> IF s.current # None
                   THEN DequeAppend(s.redo, s.current, max_history)
                   ELSE s.redo]
undo_result(s) == IF s.undo = <<>> THEN None ELSE DequePopItem(s.undo)

\* The store s after redo() (lines 101-109), and what redo() returns (lines 102, 110).
after_redo(s) ==
    IF s.redo = <<>> THEN s
    ELSE [current |-> DequePopItem(s.redo),
          redo |-> DequePopRest(s.redo),
          undo |-> IF s.current # None
                   THEN DequeAppend(s.undo, s.current, max_history)
                   ELSE s.undo]
redo_result(s) == IF s.redo = <<>> THEN None ELSE DequePopItem(s.redo)

\* The store after initialize_state(image) (lines 138-139).
after_initialize_state(s, image) == [current |-> image, undo |-> <<>>, redo |-> <<>>]

\* The handler leaves the store as s.
SetStore(s) ==
    /\ history_stack' = s.undo
    /\ redo_stack' = s.redo
    /\ current_state' = s.current

\* ImageProcessor.has_image (image_processor.py lines 73-76).
has_image == current_image # None

\* What is recorded of a handler that has run: its name, how it ended, the
\* store methods it called, whether it came right after a successful filter
\* and, for a filter and for Undo, the image displayed before it.
\* filters_since_load counts the successful filters since the load while
\* nothing else has happened (2 standing for two or more).
AppObserve(handler, outcome, calls) ==
    /\ app_last' = [handler |-> handler, outcome |-> outcome, calls |-> calls,
                    image |-> IF handler \in {"apply_filter", "undo_action"}
                              THEN current_image ELSE None,
                    follows_filter |-> app_last.handler = "apply_filter"
                                       /\ app_last.outcome = "ok"]
    /\ filters_since_load' =
          IF handler = "open_image" /\ outcome = "ok" THEN 0
          ELSE IF handler = "apply_filter" /\ outcome = "ok" /\ filters_since_load >= 0
               THEN Min(filters_since_load + 1, 2)
               ELSE -1
    /\ UNCHANGED <<max_history, ret, last, prev, run, scen, exc, streak, bufvars, blurvars,
                   procvars>>

\* A handler that returned without touching the application's state.
NothingDone ==
    UNCHANGED <<history_stack, redo_stack, current_state, current_image, original_image,
                is_modified, current_file_path, controls_enabled, file_image>>

\* Faulty variant: the history is not re-initialised for the loaded image
\* (lines 287-289 missing).
open_image_keep_history(file_path, loaded, image) ==
    IF file_path # "" /\ loaded
    THEN /\ current_image' = image
         /\ original_image' = image
         /\ current_file_path' = file_path
         /\ is_modified' = FALSE
         /\ file_image' = image
         /\ SetStore(Store)
         /\ controls_enabled' = TRUE
         /\ AppObserve("open_image", "ok", {})
    ELSE /\ NothingDone
         /\ AppObserve("open_image", IF file_path = "" THEN "cancelled" ELSE "failed", {})

\* Faulty variant: the controls are not enabled after the load (line 297 missing).
open_image_controls_off(file_path, loaded, image) ==
    IF file_path # "" /\ loaded
    THEN /\ current_image' = image
         /\ original_image' = image
         /\ current_file_path' = file_path
         /\ is_modified' = FALSE
         /\ file_image' = image
         /\ SetStore(after_initialize_state(Store, current_image'))
         /\ UNCHANGED controls_enabled
         /\ AppObserve("open_image", "ok", {"initialize_state"})
    ELSE /\ NothingDone
         /\ AppObserve("open_image", IF file_path = "" THEN "cancelled" ELSE "failed", {})

\* _open_image (main_window.py lines 268-300): the dialog returns file_path;
\* load_image (image_processor.py lines 78-117) reads image from it, or
\* returns False before it has assigned anything.
open_image(file_path, loaded, image) ==
    IF file_path # "" /\ loaded
    THEN /\ current_image' = image
         /\ original_image' = image
         /\ current_file_path' = file_path
         /\ is_modified' = FALSE
         /\ file_image' = image
         /\ SetStore(after_initialize_state(Store, current_image'))
         /\ controls_enabled' = TRUE
         /\ AppObserve("open_image", "ok", {"initialize_state"})
    ELSE /\ NothingDone
         /\ AppObserve("open_image", IF file_path = "" THEN "cancelled" ELSE "failed", {})

\* _save_image (lines 302-315): save_image writes the file or fails; with no
\* current path the handler goes on as _save_image_as, whose dialog returns
\* file_path.
save_image(file_path, saved) ==
    IF ~has_image
    THEN NothingDone /\ AppObserve("save_image", "no_image", {})
    ELSE IF (IF current_file_path # "" THEN saved ELSE file_path # "" /\ saved)
    THEN /\ is_modified' = FALSE
         /\ current_file_path' = IF current_file_path # "" THEN current_file_path ELSE file_path
         /\ file_image' = current_image
         /\ UNCHANGED <<history_stack, redo_stack, current_state, current_image,
                        original_image, controls_enabled>>
         /\ AppObserve("save_image", "ok", {})
    ELSE NothingDone /\ AppObserve("save_image", "failed", {})

\* _save_image_as (lines 317-340).
save_image_as(file_path, saved) ==
    IF ~has_image
    THEN NothingDone /\ AppObserve("save_image_as", "no_image", {})
    ELSE IF file_path # "" /\ saved
    THEN /\ is_modified' = FALSE
         /\ current_file_path' = file_path
         /\ file_image' = current_image
         /\ UNCHANGED <<history_stack, redo_stack, current_state, current_image,
                        original_image, controls_enabled>>
         /\ AppObserve("save_image_as", "ok", {})
    ELSE NothingDone
         /\ AppObserve("save_image_as", IF file_path = "" THEN "cancelled" ELSE "failed", {})

\* _undo_action (lines 344-351): set_image (image_processor.py lines 398-400)
\* makes a copy of the returned image the displayed image.
undo_action ==
    IF can_undo
    THEN /\ SetStore(after_undo(Store))
         /\ current_image' = IF undo_result(Store) # None THEN undo_result(Store)
                             ELSE current_image
         /\ UNCHANGED <<original_image, is_modified, current_file_path, controls_enabled, file_image>>
         /\ AppObserve("undo_action", "ok", {"undo"})
    ELSE NothingDone /\ AppObserve("undo_action", "nothing", {})

\* _redo_action (lines 353-360).
redo_action ==
    IF can_redo
    THEN /\ SetStore(after_redo(Store))
         /\ current_image' = IF redo_result(Store) # None THEN redo_result(Store)
                             ELSE current_image
         /\ UNCHANGED <<original_image, is_modified, current_file_path, controls_enabled, file_image>>
         /\ AppObserve("redo_action", "ok", {"redo"})
    ELSE NothingDone /\ AppObserve("redo_action", "nothing", {})

\* _reset_image (lines 362-375): response is the user's answer to the dialog;
\* reset_image (image_processor.py lines 142-147).
reset_image(response) ==
    IF has_image /\ response
    THEN /\ SetStore(after_add_state(Store, current_image))
         /\ current_image' = IF original_image # None THEN original_image ELSE current_image
         /\ UNCHANGED <<original_image, is_modified, current_file_path, controls_enabled, file_image>>
         /\ AppObserve("reset_image", "ok", {"add_state"})
    ELSE NothingDone
         /\ AppObserve("reset_image", IF has_image THEN "declined" ELSE "no_image", {})

\* apply_filter (lines 396-455) with _save_state_to_history (lines 459-462):
\* the state is saved, then the filter either succeeds, leaving result as the
\* displayed image, or fails, leaving the image as it was; after a failure
\* the handler calls undo() and drops what it returns.
apply_filter(success, result) ==
    IF ~has_image
    THEN NothingDone /\ AppObserve("apply_filter", "no_image", {})
    ELSE IF success
    THEN /\ SetStore(after_add_state(Store, current_image))
         /\ current_image' = result
         /\ is_modified' = TRUE
         /\ UNCHANGED <<original_image, current_file_path, controls_enabled, file_image>>
         /\ AppObserve("apply_filter", "ok", {"add_state"})
    ELSE /\ SetStore(after_undo(after_add_state(Store, current_image)))
         /\ UNCHANGED <<current_image, original_image, is_modified, current_file_path,
                        controls_enabled, file_image>>
         /\ AppObserve("apply_filter", "failed", {"add_state", "undo"})

\* The application right after ImageEditorApp.__init__ (lines 38-63) and
\* ControlPanel.__init__ (control_panel.py lines 39, 62): no image, controls
\* disabled.
InitApp ==
    /\ current_image = None
    /\ original_image = None
    /\ is_modified = FALSE
    /\ current_file_path = ""
    /\ controls_enabled = FALSE
    /\ app_last = [handler |-> "construct", outcome |-> "ok", calls |-> {},
                   image |-> None, follows_filter |-> FALSE]
    /\ filters_since_load = -1
    /\ file_image = None

\* The user's part in each handler: the path chosen in the dialog ("" when
\* cancelled), the file read or not, written or not, the answer given.
OpenImage ==
    \/ \E file_path \in Paths : \E image \in AppImages : open_image(file_path, TRUE, image)
    \/ \E file_path \in Paths \cup {""} : open_image(file_path, FALSE, None)
SaveImage == \E file_path \in Paths \cup {""} : \E saved \in BOOLEAN : save_image(file_path, saved)
SaveImageAs ==
    \E file_path \in Paths \cup {""} : \E saved \in BOOLEAN : save_image_as(file_path, saved)
UndoAction == undo_action
RedoAction == redo_action
ResetImage == \E response \in BOOLEAN : reset_image(response)
ApplyFilter ==
    \/ \E result \in AppImages : apply_filter(TRUE, result)
    \/ apply_filter(FALSE, None)

NextApp ==
    \/ OpenImage \/ SaveImage \/ SaveImageAs \/ UndoAction \/ RedoAction
    \/ ResetImage \/ ApplyFilter

\* ------------------------------------------------------------------- blur
\* The blur slider is a ttk.Scale from 1 to 31 (control_panel.py lines
\* 96-103): its value is a real number, here a whole number of 1/SliderSteps.
BlurFrom == 1
BlurTo == 31
BlurDefault == 5
DefaultBlurIntensity == 5

Max(a, b) == IF a >= b THEN a ELSE b

\* int(float(value)), int(slider.get()): truncation of a value >= 1.
IntOf(value) == value \div SliderSteps

\* Faulty variant: max(1, intensity) is missing (line 197).
KernelSizeNoFloor(intensity) ==
    IF intensity % 2 = 0 THEN intensity + 1 ELSE intensity

\* apply_blur, lines 195-197: the kernel size for the given intensity.
\* Python's % with a positive modulus is never negative, as in TLA+.
KernelSize(intensity) ==
    Max(1, IF intensity % 2 = 0 THEN intensity + 1 ELSE intensity)

\* apply_blur(intensity) on a processor holding an image (image_processor.py
\* lines 191-203): the intensity is kept, the kernel handed to GaussianBlur.
apply_blur(intensity) ==
    /\ blur_intensity' = intensity
    /\ blur_kernel' = KernelSize(intensity)

\* apply_blur() without an intensity (lines 189-190): the kept one is used.
apply_blur_default ==
    /\ blur_kernel' = KernelSize(blur_intensity)
    /\ UNCHANGED blur_intensity

\* _on_blur_change(value) (control_panel.py lines 296-304), called by Tk when
\* the slider has been moved to value; slider.set calls it again with the
\* odd value, which changes nothing more.
on_blur_change(value) ==
    LET int_value == IntOf(value)
    IN  IF int_value % 2 = 0
        THEN /\ blur_slider' = (int_value + 1) * SliderSteps
             /\ blur_label' = int_value + 1
        ELSE /\ blur_slider' = value
             /\ blur_label' = int_value

\* The intensity _apply_blur passes on (lines 322-325).
ButtonIntensity ==
    IF IntOf(blur_slider) % 2 = 0 THEN IntOf(blur_slider) + 1 ELSE IntOf(blur_slider)

BlurObserve(op, arg) ==
    /\ blur_last' = [op |-> op, arg |-> arg]
    /\ UNCHANGED <<max_history, valvars, bufvars, appvars, procvars>>

SliderMoved ==
    \E value \in (BlurFrom * SliderSteps)..(BlurTo * SliderSteps) :
        /\ on_blur_change(value)
        /\ UNCHANGED <<blur_intensity, blur_kernel>>
        /\ BlurObserve("on_blur_change", value)
ApplyBlurButton ==
    /\ apply_blur(ButtonIntensity)
    /\ UNCHANGED <<blur_slider, blur_label>>
    /\ BlurObserve("apply_blur_button", ButtonIntensity)
ApplyBlur ==
    \E intensity \in (0 - IntensityBound)..IntensityBound :
        /\ apply_blur(intensity)
        /\ UNCHANGED <<blur_slider, blur_label>>
        /\ BlurObserve("apply_blur", intensity)
ApplyBlurDefault ==
    /\ apply_blur_default
    /\ UNCHANGED <<blur_slider, blur_label>>
    /\ BlurObserve("apply_blur_default", blur_intensity)

NextBlur == SliderMoved \/ ApplyBlurButton \/ ApplyBlur \/ ApplyBlurDefault

\* The controls as constructed: slider and label at 5, no blur applied yet.
InitBlur ==
    /\ blur_slider = BlurDefault * SliderSteps
    /\ blur_label = BlurDefault
    /\ blur_intensity = DefaultBlurIntensity
    /\ blur_kernel = None
    /\ blur_last = [op |-> "construct", arg |-> None]

\* -------------------------------------------------------------- processor
\* ImageProcessor seen through the sizes of its images.  An image is its
\* width and height (ndarray.shape[1] and shape[0]); its pixels play no part
\* in the sizes the processor computes and records.
Sides == 1..MaxSide
Sizes == [width : Sides, height : Sides]
RotationAngles == {90, 180, 270}
\* No image, no metadata: None, written as a size with no pixels.
NoShape == [width |-> 0, height |-> 0]
\* The arguments recorded for a call that is not resize_image.
NoRequest == [width |-> 0, height |-> 0, maintain_aspect |-> FALSE]

\* has_image: _current_image is not None.
size_loaded == current_shape # NoShape

\* cv2.rotate: a quarter turn swaps width and height, a half turn keeps them.
Rotated(size, angle) ==
    IF angle = 180 THEN size ELSE [width |-> size.height, height |-> size.width]

\* The size resize_image hands to cv2.resize.  aspect_ratio is
\* current_w / current_h; the comparison width / height > aspect_ratio is
\* width * current_h > current_w * height, and int() of the positive quotient
\* is \div.  (The code computes in doubles: for sides up to MaxSide the
\* doubles give these very integers; for larger sides int() of a quotient
\* that is a whole number n can come out as n - 1, as int(49 * (1 / 49)) = 0.)
resize_target(width, height, maintain_aspect, current) ==
    IF maintain_aspect
    THEN IF width * current.height > current.width * height
         THEN [width |-> (height * current.width) \div current.height, height |-> height]
         ELSE [width |-> width, height |-> (width * current.height) \div current.width]
    ELSE [width |-> width, height |-> height]

\* cv2.resize raises on a target size with a side of 0.
cv2_resize_ok(target) == target.width > 0 /\ target.height > 0

ProcObserve(op, ok, request, target) ==
    /\ proc_last' = [op |-> op, ok |-> ok, request |-> request, pre |-> current_shape,
                     target |-> target]
    /\ UNCHANGED <<max_history, valvars, bufvars, appvars, blurvars>>

\* load_image(file_path): cv2.imread gives no image -> False; otherwise the
\* image becomes the original and the current one, with fresh metadata.
load_image(loaded, size) ==
    IF loaded
    THEN /\ original_shape' = size
         /\ current_shape' = size
         /\ metadata' = size
    ELSE UNCHANGED <<current_shape, original_shape, metadata>>

\* reset_image(): the current image becomes a copy of the original; the
\* metadata is not touched.
reset_image_size ==
    IF original_shape # NoShape
    THEN /\ current_shape' = original_shape
         /\ UNCHANGED <<original_shape, metadata>>
    ELSE UNCHANGED <<current_shape, original_shape, metadata>>

\* apply_grayscale, apply_blur, apply_edge_detection, adjust_brightness,
\* adjust_contrast, flip_image: the result has the size of its input, and the
\* metadata is not touched.
same_size_filter ==
    UNCHANGED <<current_shape, original_shape, metadata>>

\* rotate_image(angle): the metadata takes the rotated image's shape.
rotate_image(angle) ==
    IF size_loaded
    THEN /\ current_shape' = Rotated(current_shape, angle)
         /\ metadata' = IF metadata # NoShape THEN Rotated(current_shape, angle) ELSE metadata
         /\ UNCHANGED original_shape
    ELSE UNCHANGED <<current_shape, original_shape, metadata>>

\* resize_image(width, height, maintain_aspect): on success the image and the
\* metadata take the target size; an exception of cv2.resize is caught and
\* leaves both as they were.
resize_image(width, height, maintain_aspect) ==
    IF size_loaded /\ cv2_resize_ok(resize_target(width, height, maintain_aspect, current_shape))
    THEN /\ current_shape' = resize_target(width, height, maintain_aspect, current_shape)
         /\ metadata' = IF metadata # NoShape
                        THEN resize_target(width, height, maintain_aspect, current_shape)
                        ELSE metadata
         /\ UNCHANGED original_shape
    ELSE UNCHANGED <<current_shape, original_shape, metadata>>

\* set_image(image): the current image becomes a copy of image, and the
\* metadata, if there is one, takes its shape.
set_image(size) ==
    /\ current_shape' = size
    /\ metadata' = IF metadata # NoShape THEN size ELSE metadata
    /\ UNCHANGED original_shape

LoadImage ==
    \/ \E size \in Sizes : load_image(TRUE, size) /\ ProcObserve("load_image", TRUE, NoRequest, NoShape)
    \/ load_image(FALSE, NoShape) /\ ProcObserve("load_image", FALSE, NoRequest, NoShape)
ResetImageSize ==
    reset_image_size /\ ProcObserve("reset_image", original_shape # NoShape, NoRequest, NoShape)
SameSizeFilter ==
    same_size_filter /\ ProcObserve("filter", size_loaded, NoRequest, NoShape)
RotateImage ==
    \E angle \in RotationAngles :
        rotate_image(angle) /\ ProcObserve("rotate_image", size_loaded, NoRequest, NoShape)
\* The sizes asked for are positive: the resize button of the control panel
\* rejects any other (control_panel.py, _apply_resize).
ResizeImage ==
    \E width \in Sides, height \in Sides, maintain_aspect \in BOOLEAN :
        /\ resize_image(width, height, maintain_aspect)
        /\ ProcObserve("resize_image",
                       size_loaded /\ cv2_resize_ok(resize_target(width, height, maintain_aspect,
                                                                 current_shape)),
                       [width |-> width, height |-> height, maintain_aspect |-> maintain_aspect],
                       IF size_loaded
                       THEN resize_target(width, height, maintain_aspect, current_shape)
                       ELSE NoShape)
\* set_image is called by the Undo and Redo handlers, with a snapshot taken
\* of an image that was loaded.
SetImage ==
    \E size \in Sizes :
        size_loaded /\ set_image(size) /\ ProcObserve("set_image", TRUE, NoRequest, NoShape)

NextProcessor ==
    LoadImage \/ ResetImageSize \/ SameSizeFilter \/ RotateImage \/ ResizeImage \/ SetImage

\* __init__: no image, no metadata.
InitProcessor ==
    /\ current_shape = NoShape
    /\ original_shape = NoShape
    /\ metadata = NoShape
    /\ proc_last = [op |-> "construct", ok |-> TRUE, request |-> NoRequest, pre |-> NoShape,
                    target |-> NoShape]

\* ---------------------------------------------------------- specification
\* __init__(max_history): empty deques bounded by max_history, no current state.
Init ==
    /\ max_history \in 1..MaxHistoryBound
    /\ history_stack = <<>>
    /\ redo_stack = <<>>
    /\ current_state = None
    /\ ret = None
    /\ last = [op |-> "construct", arg |-> None, pre |-> EmptyStore]
    /\ prev = [op |-> "construct", pre |-> EmptyStore]
    /\ run = NoRun
    /\ scen = [k |-> 0, args |-> <<>>]
    /\ exc = "none"
    /\ streak = 0
    /\ InitBuffers
    /\ InitApp
    /\ InitBlur
    /\ InitProcessor

AddState == \E image \in Images : add_state(image) /\ Observe("add_state", image)
Undo == undo /\ Observe("undo", None)
Redo == redo /\ Observe("redo", None)
ClearHistory == clear_history /\ Observe("clear_history", None)
InitializeState == \E image \in Images : initialize_state(image) /\ Observe("initialize_state", image)

Next == AddState \/ Undo \/ Redo \/ ClearHistory \/ InitializeState

Spec == Init /\ [][Next]_vars

\* ------------------------------------------- arguments outside the contract
\* The store when the caller passes any integer as max_history:
\* deque(maxlen=m) raises ValueError for m < 0 (line 36) and accepts m = 0.
InitAnyDepth ==
    /\ max_history \in (0 - NegHistoryBound)..MaxHistoryBound
    /\ history_stack = <<>>
    /\ redo_stack = <<>>
    /\ current_state = None
    /\ ret = None
    /\ last = [op |-> "construct", arg |-> None, pre |-> EmptyStore]
    /\ prev = [op |-> "construct", pre |-> EmptyStore]
    /\ run = NoRun
    /\ scen = [k |-> 0, args |-> <<>>]
    /\ exc = IF max_history < 0 THEN "ValueError" ELSE "none"
    /\ streak = 0
    /\ InitBuffers
    /\ InitApp
    /\ InitBlur
    /\ InitProcessor

\* __init__ returned a store.
Constructed == ~(last.op = "construct" /\ exc = "ValueError")

NextAnyDepth == Constructed /\ Next

SpecAnyDepth == InitAnyDepth /\ [][NextAnyDepth]_vars

\* The store (built with a positive max_history) when the caller also passes
\* None as the image.
AddStateAbsent == add_state_absent /\ ObserveRaise("add_state", None, "AttributeError")
InitializeStateAbsent ==
    initialize_state_absent /\ ObserveRaise("initialize_state", None, "AttributeError")

NextAbsentImage == Next \/ AddStateAbsent \/ InitializeStateAbsent

SpecAbsentImage == Init /\ [][NextAbsentImage]_vars

\* The store with its arrays as objects, driven by a caller that may write
\* into every array it holds.
SpecBuffers == Init /\ [][NextBuffers]_vars

\* The store when the caller also asks for its memory usage.
GetMemoryUsage == get_memory_usage /\ Observe("get_memory_usage", None)

NextMemory == Next \/ GetMemoryUsage

SpecMemory == Init /\ [][NextMemory]_vars

\* The application: any sequence of its event handlers.
SpecApp == Init /\ [][NextApp]_vars

\* The blur controls: the slider moved, the button pressed, apply_blur called.
SpecBlur == Init /\ [][NextBlur]_vars
SpecProcessor == Init /\ [][NextProcessor]_vars

\* ------------------------------------------------------------ properties

\* C1: in every reachable state of the store, len(_history_stack) <= max_history
\* and len(_redo_stack) <= max_history.
C1_StacksBounded ==
    /\ Len(history_stack) <= max_history
    /\ Len(redo_stack) <= max_history

\* An add_state on a store whose history stack was already full has acted.
C1_Witness ==
    /\ last.op = "add_state"
    /\ last.pre.current # None
    /\ Len(last.pre.undo) = max_history
    /\ Len(history_stack) = max_history

\* C2: after every add_state(X) the redo stack is empty and can_redo is false,
\* whatever the redo stack held before the call.
C2_AddStateClearsRedo ==
    last.op = "add_state" => (redo_stack = <<>> /\ ~can_redo)

\* An add_state has acted on a store whose redo stack was not empty.
C2_Witness ==
    /\ last.op = "add_state"
    /\ last.pre.redo # <<>>
    /\ redo_stack = <<>>

\* C3: add_state(image) with a current state present appends the old current
\* state at the tail of the history stack, dropping the oldest entry exactly
\* when the stack already held max_history entries, and makes image the
\* current state; with no current state it leaves the stacks as they were and
\* only sets the current state to image.
C3_AddStateEffect ==
    last.op = "add_state" =>
        /\ current_state = last.arg
        /\ last.pre.current # None =>
              /\ history_stack # <<>>
              /\ history_stack[Len(history_stack)] = last.pre.current
              /\ SubSeq(history_stack, 1, Len(history_stack) - 1) =
                    IF Len(last.pre.undo) = max_history
                    THEN Tail(last.pre.undo)
                    ELSE last.pre.undo
        /\ last.pre.current = None =>
              /\ history_stack = last.pre.undo
              /\ redo_stack = last.pre.redo

\* An add_state that replaced a different current state and evicted the oldest
\* entry of a full history stack has acted.
C3_Witness ==
    /\ last.op = "add_state"
    /\ last.pre.current # None
    /\ last.pre.current # current_state
    /\ Len(last.pre.undo) = max_history
    /\ history_stack # last.pre.undo

\* C4: after initialize_state(S0), add_state(S1), ..., add_state(Sn) with
\* n > max_history, the history stack holds exactly max_history entries, namely
\* S(n-max_history), ..., S(n-1), oldest first.
C4_KeepsMostRecent ==
    (run.phase = "adds" /\ run.n > max_history) =>
        /\ Len(history_stack) = max_history
        /\ Len(run.chain) = max_history + 1
        /\ history_stack = SubSeq(run.chain, 1, max_history)
        /\ current_state = run.chain[max_history + 1]

\* Such a run of more than max_history add_state calls, all of different
\* images, has been made.
C4_Witness ==
    /\ run.phase = "adds"
    /\ run.n > max_history
    /\ last.op = "add_state"
    /\ Cardinality(Range(run.chain)) = max_history + 1

\* C5: undo() on a non-empty history stack appends the previous current state
\* at the tail of the redo stack (evicting nothing), removes the tail of the
\* history stack and makes it the current state, and returns that state.
C5_UndoEffect ==
    (last.op = "undo" /\ last.pre.undo # <<>>) =>
        /\ redo_stack = Append(last.pre.redo, last.pre.current)
        /\ Len(redo_stack) = Len(last.pre.redo) + 1
        /\ current_state = last.pre.undo[Len(last.pre.undo)]
        /\ history_stack = SubSeq(last.pre.undo, 1, Len(last.pre.undo) - 1)
        /\ Len(history_stack) = Len(last.pre.undo) - 1
        /\ ret = current_state
        /\ ret # None

\* An undo() has acted on a store with history and a non-empty redo stack, and
\* filled the redo stack.
C5_Witness ==
    /\ last.op = "undo"
    /\ last.pre.undo # <<>>
    /\ last.pre.redo # <<>>
    /\ Len(redo_stack) = max_history

\* C6: undo() on an empty history stack returns None and leaves the current
\* state and both stacks as they were.
C6_UndoEmpty ==
    (last.op = "undo" /\ last.pre.undo = <<>>) =>
        /\ ret = None
        /\ Store = last.pre

\* An undo() has been called on a store holding a current state and redo
\* entries but no history.
C6_Witness ==
    /\ last.op = "undo"
    /\ last.pre.undo = <<>>
    /\ last.pre.current # None
    /\ last.pre.redo # <<>>

\* C7: redo() on a non-empty redo stack appends the previous current state at
\* the tail of the history stack (evicting nothing), removes the tail of the
\* redo stack and makes it the current state, and returns that state.
C7_RedoEffect ==
    (last.op = "redo" /\ last.pre.redo # <<>>) =>
        /\ history_stack = Append(last.pre.undo, last.pre.current)
        /\ Len(history_stack) = Len(last.pre.undo) + 1
        /\ current_state = last.pre.redo[Len(last.pre.redo)]
        /\ redo_stack = SubSeq(last.pre.redo, 1, Len(last.pre.redo) - 1)
        /\ Len(redo_stack) = Len(last.pre.redo) - 1
        /\ ret = current_state
        /\ ret # None

\* A redo() has acted on a store with history and redo entries, and filled the
\* history stack.
C7_Witness ==
    /\ last.op = "redo"
    /\ last.pre.redo # <<>>
    /\ last.pre.undo # <<>>
    /\ Len(history_stack) = max_history

\* C8: redo() on an empty redo stack returns None and leaves the current state
\* and both stacks as they were.
C8_RedoEmpty ==
    (last.op = "redo" /\ last.pre.redo = <<>>) =>
        /\ ret = None
        /\ Store = last.pre

\* A redo() has been called on a store holding a current state and history
\* but no redo entries.
C8_Witness ==
    /\ last.op = "redo"
    /\ last.pre.redo = <<>>
    /\ last.pre.current # None
    /\ last.pre.undo # <<>>

\* C9: from a state in which can_undo is true, undo() followed immediately by
\* redo() returns the state that was current before the undo(), and the
\* current state is that state again.
C9_UndoThenRedo ==
    (last.op = "redo" /\ prev.op = "undo" /\ prev.pre.undo # <<>>) =>
        /\ ret = prev.pre.current
        /\ current_state = prev.pre.current

\* undo() then redo() have acted, the undo having changed the current state
\* on a store that already held redo entries.
C9_Witness ==
    /\ last.op = "redo"
    /\ prev.op = "undo"
    /\ prev.pre.undo # <<>>
    /\ prev.pre.redo # <<>>
    /\ last.pre.current # prev.pre.current
    /\ current_state = prev.pre.current

\* C10: after initialize_state(S0), add_state(S1), ..., add_state(Sn) with
\* 1 <= n <= max_history, n successive undo() calls return S(n-1), ..., S0 in
\* that order and leave can_undo false; n successive redo() calls then return
\* S1, ..., Sn in that order.   (run.chain[i + 1] is S(i).)
C10_LifoRecovery ==
    /\ run.phase = "undos" =>
          /\ \A j \in 1..Len(run.rets) : run.rets[j] = run.chain[run.n - j + 1]
          /\ Len(run.rets) = run.n => ~can_undo
    /\ run.phase = "redos" =>
          /\ \A j \in 1..Len(run.rets) : run.rets[j] = run.chain[j + 1]

\* A run of max_history add_state calls of different images, as many undo()s
\* and as many redo()s has been completed.
C10_Witness ==
    /\ run.phase = "redos"
    /\ run.n = max_history
    /\ run.n > 1
    /\ Len(run.rets) = run.n
    /\ Cardinality(Range(run.chain)) = run.n + 1

\* C11: right after construction and right after clear_history() (from any
\* state), can_undo is false, can_redo is false, and an undo() called then
\* returns None.
C11_EmptyAfterConstructOrClear ==
    /\ last.op \in {"construct", "clear_history"} => (~can_undo /\ ~can_redo)
    /\ (last.op = "undo" /\ prev.op \in {"construct", "clear_history"}) => ret = None

\* An undo() has been called right after a clear_history() that discarded
\* history and redo entries.
C11_Witness ==
    /\ last.op = "undo"
    /\ prev.op = "clear_history"
    /\ prev.pre.undo # <<>>
    /\ prev.pre.redo # <<>>
    /\ ret = None

\* C12: initialize_state(X) from any state leaves both stacks empty,
\* history_count = 0 and the current state equal to X: the store that
\* clear_history() followed by setting the current state to X produces.
C12_InitializeStateResets ==
    last.op = "initialize_state" =>
        /\ history_stack = <<>>
        /\ redo_stack = <<>>
        /\ history_count = 0
        /\ current_state = last.arg
        /\ Store = [EmptyStore EXCEPT !.current = last.arg]

\* An initialize_state has acted on a store holding history and redo entries.
C12_Witness ==
    /\ last.op = "initialize_state"
    /\ last.pre.undo # <<>>
    /\ last.pre.redo # <<>>
    /\ last.pre.current # last.arg
    /\ history_count = 0

\* C13: clear_history() from any state empties both stacks and sets the
\* current state to None; max_history is unchanged.
C13_ClearHistoryEffect ==
    [][last'.op = "clear_history" =>
          /\ history_stack' = <<>>
          /\ redo_stack' = <<>>
          /\ current_state' = None
          /\ max_history' = max_history]_vars

\* A clear_history() has acted on a store holding history and redo entries.
C13_Witness ==
    /\ last.op = "clear_history"
    /\ last.pre.undo # <<>>
    /\ last.pre.redo # <<>>
    /\ last.pre.current # None
    /\ Store = EmptyStore

\* C14: once a current state is present, no add_state, undo, redo or
\* initialize_state makes it None again; only clear_history() does.
C14_CurrentStaysPresent ==
    [][(current_state # None /\ last'.op # "clear_history") => current_state' # None]_vars

\* undo() and redo() have been called with nothing to restore on a store
\* holding a current state, which is still present.
C14_Witness ==
    /\ last.op = "redo"
    /\ prev.op = "undo"
    /\ prev.pre.undo = <<>>
    /\ last.pre.redo = <<>>
    /\ prev.pre.current # None
    /\ current_state # None

\* C20: in every state can_undo holds iff history_count > 0 iff the history
\* stack is non-empty, and can_redo holds iff the redo stack is non-empty;
\* undo() returns an image iff can_undo held before the call, and redo()
\* returns an image iff can_redo held before the call.
C20_CanUndoRedo ==
    /\ can_undo <=> history_count > 0
    /\ can_undo <=> history_stack # <<>>
    /\ can_redo <=> redo_stack # <<>>
    /\ last.op = "undo" => (ret # None <=> last.pre.undo # <<>>)
    /\ last.op = "redo" => (ret # None <=> last.pre.redo # <<>>)

\* An undo() has returned an image, leaving nothing more to undo but
\* something to redo.
C20_Witness ==
    /\ last.op = "undo"
    /\ ret # None
    /\ ~can_undo
    /\ history_count = 0
    /\ can_redo

\* C19: on a store built with max_history = 2 the calls add_state(A),
\* add_state(B), add_state(C), add_state(D), undo(), undo(), undo(), redo()
\* give in turn: current A, no history, no redo; current B, history [A];
\* current C, history [A, B]; current D, history [B, C]; undo returns C with
\* history [B], redo [D]; undo returns B with history [], redo [D, C]; undo
\* returns None and changes nothing; redo returns C with current C,
\* history [B], redo [D].
C19_Scenario ==
    (max_history = 2 /\ scen.k >= 1) =>
        LET A == scen.args[1]
            B == scen.args[2]
            C == scen.args[3]
            D == scen.args[4]
        IN  /\ scen.k = 1 => Store = [current |-> A, undo |-> <<>>, redo |-> <<>>]
            /\ scen.k = 2 => (current_state = B /\ history_stack = <<A>>)
            /\ scen.k = 3 => (current_state = C /\ history_stack = <<A, B>>)
            /\ scen.k = 4 => (current_state = D /\ history_stack = <<B, C>>)
            /\ scen.k = 5 => (ret = C /\ Store = [current |-> C, undo |-> <<B>>, redo |-> <<D>>])
            /\ scen.k = 6 => (ret = B /\ Store = [current |-> B, undo |-> <<>>, redo |-> <<D, C>>])
            /\ scen.k = 7 => (ret = None /\ Store = last.pre
                              /\ Store = [current |-> B, undo |-> <<>>, redo |-> <<D, C>>])
            /\ scen.k = 8 => (ret = C /\ Store = [current |-> C, undo |-> <<B>>, redo |-> <<D>>])

\* The eight calls have been made, with four different images.
C19_Witness ==
    /\ max_history = 2
    /\ scen.k = 8
    /\ Cardinality(Range(scen.args)) = 4
    /\ last.op = "redo"

\* C15: constructing a store with max_history <= 0 (zero or negative) fails:
\* __init__ raises and no store is produced.
C15_NonPositiveRejected ==
    max_history <= 0 => (last.op = "construct" /\ exc # "none")

\* C16: every call either completes or leaves the current state and both
\* stacks as they were before it, also when the image given to add_state or
\* initialize_state is None.
C16_AllOrNothing ==
    exc # "none" => Store = last.pre

\* C17: get_current_state() changes nothing in the store and returns an
\* array equal to the current state (None when there is none); writing into
\* an array that get_current_state() returned changes neither what a later
\* get_current_state() returns nor any entry of the two stacks.
C17_GetCurrentStateIsolated ==
    [][/\ ref_last'.op = "get_current_state" =>
            /\ View' = View
            /\ <<current_ref', history_refs', redo_refs'>> = <<current_ref, history_refs, redo_refs>>
            /\ IF current_ref = None THEN ref_ret' = None
               ELSE ref_ret' # None /\ heap'[ref_ret'] = heap[current_ref]
       /\ (ref_last'.op = "mutate" /\ ref_last'.origin = "get_current_state") =>
            View' = View]_vars

\* The caller has written into an array it got from get_current_state(),
\* which now differs from the current state of a store holding history.
C17_Witness ==
    /\ ref_last.op = "mutate"
    /\ ref_last.origin = "get_current_state"
    /\ current_ref # None
    /\ history_refs # <<>>
    /\ \E k \in DOMAIN caller_refs :
          /\ caller_refs[k].from = "get_current_state"
          /\ heap[caller_refs[k].ref] # heap[current_ref]

\* The references of the store followed by those the caller holds.
AllRefs ==
    (IF current_ref = None THEN <<>> ELSE <<current_ref>>) \o history_refs \o redo_refs
        \o [i \in 1..Len(caller_refs) |-> caller_refs[i].ref]

\* C18: no array is shared between the current state, an entry of either
\* stack and the arrays the caller holds (those it passed to add_state or
\* initialize_state, those undo, redo or get_current_state returned), so a
\* write into an array the caller holds never changes the store's contents.
C18_NoSharedBuffer ==
    [][/\ Cardinality(Range(AllRefs')) = Len(AllRefs')
       /\ ref_last'.op = "mutate" => View' = View]_vars

\* The caller has written into the array undo() returned to it, on a store
\* holding a current state, a history entry and a redo entry.
C18_Witness ==
    /\ ref_last.op = "mutate"
    /\ ref_last.origin = "undo"
    /\ current_ref # None
    /\ history_refs # <<>>
    /\ redo_refs # <<>>

\* C29: in every state reachable by store operations the two stacks together
\* hold at most max_history entries; so the push made by undo() or redo()
\* never evicts an entry (the stacks together hold as many entries after it
\* as before), and only add_state drops one.
C29_StacksShareBound ==
    /\ Len(history_stack) + Len(redo_stack) <= max_history
    /\ last.op \in {"undo", "redo"} =>
          Len(history_stack) + Len(redo_stack) = Len(last.pre.undo) + Len(last.pre.redo)
    /\ (last.op = "undo" /\ last.pre.undo # <<>>) =>
          redo_stack = Append(last.pre.redo, last.pre.current)
    /\ (last.op = "redo" /\ last.pre.redo # <<>>) =>
          history_stack = Append(last.pre.undo, last.pre.current)

\* An undo() has acted on a store whose stacks, both non-empty, together
\* held max_history entries.
C29_Witness ==
    /\ last.op = "undo"
    /\ last.pre.undo # <<>>
    /\ last.pre.redo # <<>>
    /\ Len(last.pre.undo) + Len(last.pre.redo) = max_history
    /\ Len(redo_stack) = Len(last.pre.redo) + 1

\* The items of s in the opposite order.
Reverse(s) == [i \in 1..Len(s) |-> s[Len(s) + 1 - i]]

\* The timeline of a store: its history (oldest first), its current state,
\* its redo entries from the next one to restore to the last.
Timeline(s) == s.undo \o <<s.current>> \o Reverse(s.redo)

\* C30: the timeline is the same after every undo() and every redo() as
\* before it; only the position of the current state in it moves, by one
\* (by none when there was nothing to undo or redo).
C30_TimelinePreserved ==
    last.op \in {"undo", "redo"} =>
        /\ Timeline(Store) = Timeline(last.pre)
        /\ last.op = "undo" =>
              Len(history_stack) = Len(last.pre.undo) - (IF last.pre.undo # <<>> THEN 1 ELSE 0)
        /\ last.op = "redo" =>
              Len(history_stack) = Len(last.pre.undo) + (IF last.pre.redo # <<>> THEN 1 ELSE 0)

\* An undo() has moved the current state within a timeline of three
\* different images that has entries on both sides of it.
C30_Witness ==
    /\ last.op = "undo"
    /\ last.pre.undo # <<>>
    /\ last.pre.redo # <<>>
    /\ Len(Timeline(Store)) = 3
    /\ Cardinality(Range(Timeline(Store))) = 3
    /\ current_state # last.pre.current

\* C27: get_memory_usage() changes nothing in the store; the history_count
\* it reports is the length of the history stack, its redo_count the length
\* of the redo stack, and the total it reports is the sum of the history,
\* redo and current sizes it reports.
C27_MemoryUsageReadOnly ==
    last.op = "get_memory_usage" =>
        /\ Store = last.pre
        /\ ret.history_count = Len(history_stack)
        /\ ret.redo_count = Len(redo_stack)
        /\ ret.total_size_mb.den = MiB
        /\ ret.total_size_mb.num =
              ret.history_size_mb.num + ret.redo_size_mb.num + ret.current_size_mb.num
        /\ ret.history_size_mb.den = MiB
        /\ ret.redo_size_mb.den = MiB
        /\ ret.current_size_mb.den = MiB

\* get_memory_usage() has reported on a store holding a current state,
\* history and redo entries of different sizes.
C27_Witness ==
    /\ last.op = "get_memory_usage"
    /\ history_stack # <<>>
    /\ redo_stack # <<>>
    /\ ret.history_count + ret.redo_count = max_history
    /\ ret.current_size_mb.num > 0
    /\ ret.history_size_mb.num # ret.redo_size_mb.num
    /\ ret.total_size_mb.num > ret.history_size_mb.num + ret.redo_size_mb.num

\* The blur calls that hand a kernel to the library.
BlurCalls == {"apply_blur", "apply_blur_button", "apply_blur_default"}

\* C28 as stated: for every integer intensity passed to apply_blur the kernel
\* size handed to the blur library is an odd integer >= 1, and after the
\* slider callback the slider value is an odd integer within [1, 31].
C28_SliderOddInteger ==
    /\ blur_last.op \in BlurCalls => (blur_kernel % 2 = 1 /\ blur_kernel >= 1)
    /\ blur_last.op = "on_blur_change" =>
          /\ blur_slider % SliderSteps = 0
          /\ IntOf(blur_slider) % 2 = 1
          /\ IntOf(blur_slider) >= BlurFrom
          /\ IntOf(blur_slider) <= BlurTo

\* C28 amended: for every integer intensity passed to apply_blur the kernel
\* size handed to the blur library is an odd integer >= 1; after the slider
\* callback the integer part of the slider value, which is the number the
\* label shows and the intensity the Apply button passes on, is an odd
\* integer within [1, 31], and the slider value is within [1, 31]; the
\* slider is moved to an odd integer only when that integer part was even.
C28_KernelOdd ==
    /\ blur_last.op \in BlurCalls => (blur_kernel % 2 = 1 /\ blur_kernel >= 1)
    /\ blur_last.op = "on_blur_change" =>
          /\ IntOf(blur_slider) % 2 = 1
          /\ IntOf(blur_slider) >= BlurFrom
          /\ blur_slider <= BlurTo * SliderSteps
          /\ blur_label = IntOf(blur_slider)
          /\ ButtonIntensity = blur_label
          /\ IF IntOf(blur_last.arg) % 2 = 0
             THEN blur_slider = (IntOf(blur_last.arg) + 1) * SliderSteps
             ELSE blur_slider = blur_last.arg
    /\ blur_last.op = "apply_blur_button" =>
          /\ blur_last.arg % 2 = 1
          /\ blur_last.arg >= BlurFrom
          /\ blur_last.arg <= BlurTo
          /\ blur_kernel = blur_last.arg

\* apply_blur has been called with a negative even intensity, giving the
\* kernel 1, while the slider rests between two integers.
C28_Witness ==
    /\ blur_last.op = "apply_blur"
    /\ blur_last.arg < 0
    /\ blur_last.arg % 2 = 0
    /\ blur_kernel = 1
    /\ blur_slider % SliderSteps # 0
    /\ blur_label % 2 = 1

\* C21: in the application, after an image load followed by one or more
\* successful filter applications (and nothing else), one Undo makes the
\* displayed image the image as it was right before the most recent filter.
\* (app_last.image of a filter is the image displayed before that filter.)
C21_UndoRestoresPreFilter ==
    [][(/\ app_last.handler = "apply_filter"
        /\ app_last.outcome = "ok"
        /\ filters_since_load >= 1
        /\ app_last'.handler = "undo_action")
          => current_image' = app_last.image]_vars

\* C22: in the application, after a successful filter application, an Undo
\* followed at once by a Redo leaves the displayed image equal to the
\* post-filter image shown just before the Undo.
\* (app_last.image of an Undo is the image displayed before that Undo.)
C22_UndoRedoRestoresFiltered ==
    [][(/\ app_last.handler = "undo_action"
        /\ app_last.follows_filter
        /\ app_last'.handler = "redo_action")
          => current_image' = app_last.image]_vars

\* C23: in the application, when a filter fails, the add_state made before
\* it and the undo() made after it leave the store's current state and its
\* history stack (hence history_count) as they were before apply_filter was
\* called, in every reachable state, a full history stack included.
C23_FailedFilterRestoresHistory ==
    [][(app_last'.handler = "apply_filter" /\ app_last'.outcome = "failed")
          => /\ current_state' = current_state
             /\ history_stack' = history_stack
             /\ Len(history_stack') = history_count]_vars

\* C24: in the application, a failed filter attempt leaves the redo stack
\* and can_redo as they were before the attempt: it neither destroys redo
\* entries nor creates one.
C24_FailedFilterKeepsRedo ==
    [][(app_last'.handler = "apply_filter" /\ app_last'.outcome = "failed")
          => /\ redo_stack' = redo_stack
             /\ (Len(redo_stack') > 0) = can_redo]_vars

\* C25: in the application, every successful image load calls
\* initialize_state with the loaded image: right after it can_undo and
\* can_redo are false, history_count is 0 and the store's current state is
\* the processor's image, whatever history the previous image had; a failed
\* load leaves the store and the processor's image as they were.
C25_LoadResetsHistory ==
    [][/\ (app_last'.handler = "open_image" /\ app_last'.outcome = "ok") =>
             /\ "initialize_state" \in app_last'.calls
             /\ history_stack' = <<>>
             /\ redo_stack' = <<>>
             /\ current_image' # None
             /\ current_state' = current_image'
       /\ (app_last'.handler = "open_image" /\ app_last'.outcome # "ok") =>
             /\ <<current_state', history_stack', redo_stack'>> =
                   <<current_state, history_stack, redo_stack>>
             /\ current_image' = current_image]_vars

\* An image has been loaded right after a successful filter on the previous
\* image, whose history is gone.
C25_Witness ==
    /\ app_last.handler = "open_image"
    /\ app_last.outcome = "ok"
    /\ app_last.follows_filter
    /\ ~can_undo
    /\ ~can_redo
    /\ history_count = 0
    /\ current_state = current_image

\* C26: after every completed event handler the controls are enabled iff
\* the image processor has an image, and the Undo and Redo handlers call the
\* store's undo() and redo() only when can_undo, can_redo held.
C26_ControlsFollowImage ==
    [][/\ controls_enabled' <=> has_image'
       /\ (app_last'.handler = "undo_action" /\ "undo" \in app_last'.calls) => can_undo
       /\ (app_last'.handler = "redo_action" /\ "redo" \in app_last'.calls) => can_redo
       /\ (app_last'.handler = "undo_action" /\ ~can_undo) => app_last'.calls = {}
       /\ (app_last'.handler = "redo_action" /\ ~can_redo) => app_last'.calls = {}]_vars

\* With an image loaded and the controls enabled, Undo has been asked for
\* with nothing to undo and has not called the store.
C26_Witness ==
    /\ app_last.handler = "undo_action"
    /\ app_last.outcome = "nothing"
    /\ app_last.calls = {}
    /\ has_image
    /\ controls_enabled
    /\ ~can_undo
    /\ can_redo

\* C31: from every reachable state in which can_redo is true, redo()
\* followed immediately by undo() restores the whole store: the current
\* state, the history stack and the redo stack equal their values before
\* the redo().
C31_RedoThenUndo ==
    (last.op = "undo" /\ prev.op = "redo" /\ prev.pre.redo # <<>>) => Store = prev.pre

\* redo() then undo() have acted on a store holding history and a redo
\* entry, the redo having changed the current state.
C31_Witness ==
    /\ last.op = "undo"
    /\ prev.op = "redo"
    /\ prev.pre.undo # <<>>
    /\ prev.pre.redo # <<>>
    /\ last.pre.current # prev.pre.current
    /\ Store = prev.pre

\* C32: in every reachable state, if there is no current state then the
\* history stack and the redo stack are both empty, so undo() and redo()
\* called then return None and change nothing.
C32_EmptyCarriesNoHistory ==
    /\ current_state = None => (history_stack = <<>> /\ redo_stack = <<>>)
    /\ (last.op \in {"undo", "redo"} /\ last.pre.current = None) =>
          (ret = None /\ Store = last.pre /\ Store = EmptyStore)

\* redo() has been called on a store that clear_history() had just emptied
\* of its current state, its history and its redo entries.
C32_Witness ==
    /\ last.op = "redo"
    /\ prev.op = "clear_history"
    /\ prev.pre.current # None
    /\ prev.pre.undo # <<>>
    /\ prev.pre.redo # <<>>
    /\ current_state = None
    /\ ret = None

\* C33: in a run of consecutive undo() calls, and in a run of consecutive
\* redo() calls, at most max_history calls return an image: every call
\* that does shortens the stack it pops by one, and after max_history of
\* them the next call of the run returns None.
C33_RunsEnd ==
    /\ streak <= max_history
    /\ (last.op = "undo" /\ ret # None) => history_count = Len(last.pre.undo) - 1
    /\ (last.op = "redo" /\ ret # None) => Len(redo_stack) = Len(last.pre.redo) - 1
    /\ (last.op = "undo" /\ streak = max_history) => ~can_undo
    /\ (last.op = "redo" /\ streak = max_history) => ~can_redo
    /\ (last.op = "undo" /\ prev.op = "undo" /\ streak = max_history
            /\ Len(last.pre.undo) = 0) => ret = None

\* A run of undo() calls has returned max_history images, more than one,
\* and then None.
C33_Witness ==
    /\ last.op = "undo"
    /\ prev.op = "undo"
    /\ streak = max_history
    /\ max_history > 1
    /\ ret = None
    /\ Len(redo_stack) = max_history

\* C35: after every completed event handler (open, save, apply filter,
\* undo, redo, reset), if the processor's image differs from the image most
\* recently loaded from or saved to a file, then is_modified is true.
C35_ModifiedWhenDifferent ==
    (has_image /\ current_image # file_image) => is_modified

\* C34: after every completed ImageProcessor operation on a loaded image
\* (load_image, a filter, rotate_image, resize_image, reset_image,
\* set_image), metadata.width and metadata.height are the width and height
\* of the current image.
C34_MetadataMatchesImage ==
    (size_loaded /\ proc_last.ok) => metadata = current_shape

\* C36: resize_image with maintain_aspect true, for positive requested width
\* W and height H and a current image of cw x ch: the target size (w', h')
\* handed to cv2.resize satisfies 1 <= w' <= W and 1 <= h' <= H, with
\* w' = floor(H*cw/ch), h' = H when W/H > cw/ch, and w' = W,
\* h' = floor(W*ch/cw) otherwise.
C36_AspectTargetInBox ==
    (proc_last.op = "resize_image" /\ proc_last.pre # NoShape
        /\ proc_last.request.maintain_aspect) =>
        LET W == proc_last.request.width
            H == proc_last.request.height
            cw == proc_last.pre.width
            ch == proc_last.pre.height
            t == proc_last.target
        IN /\ 1 <= t.width /\ t.width <= W
           /\ 1 <= t.height /\ t.height <= H
           /\ IF W * ch > cw * H
              THEN t.width = (H * cw) \div ch /\ t.height = H
              ELSE t.width = W /\ t.height = (W * ch) \div cw

====
